---------------------------- MODULE Spec2Model ----------------------------
(***************************************************************************)
(* A model of nest: the query-language compiler of src/src/nest/nest.py    *)
(* (grammar, simplify, process_expr, prefix_nested_fields, directive       *)
(* options) and the HTTP glue of src/src/nest/middleware.py.               *)
(*                                                                         *)
(* Text.  A query string is modelled as the sequence of its lexemes, the   *)
(* string being the lexemes separated by single blanks (the parser skips   *)
(* blanks before every token and pattern, nest.py:37).  A lexeme (a        *)
(* "word") is the sequence of its dot-separated segments, so that          *)
(* "authors.surname" is <<"authors", "surname">>: this lets the model      *)
(* compute f"{path}.{field}" as concatenation and str.startswith(path+".") *)
(* as a proper-prefix test, instead of treating field names as atoms.      *)
(* The text of a query_string clause is the sequence of the words that     *)
(* " ".join put together.  A directive value is the sequence of its        *)
(* comma-separated parts, so that value.split(",") is computed, not        *)
(* assumed.                                                                *)
(***************************************************************************)
EXTENDS Integers, Sequences, FiniteSets, TLC

VARIABLES
    given,      \* how the query text was put together (the operands a claim speaks of)
    input,      \* [text, present, query_param, extra, takesRequest]: the query text
                \* and, for an HTTP request, its parameters and the endpoint's signature
    pc,         \* "ready", "flask_mw", "fastapi_mw", "done"
    client,     \* "none", "lib", "flask", "fastapi": who is using the parser
    store,      \* the per-request storage (flask.g, request.scope): what is set on it
    outcome     \* what the caller gets: a document, a raised exception, the handler's
                \* keyword arguments, or an error response

vars == <<given, input, pc, client, store, outcome>>

-----------------------------------------------------------------------------
(* JSON-like values of the parse tree (tatsu.util.asjson output).          *)

Str(w) == [t |-> "str", v |-> w]
List(items) == [t |-> "list", items |-> items]
Dict(d) == [t |-> "dict", d |-> d]

IsStr(n) == n.t = "str"
IsList(n) == n.t = "list"
IsDict(n) == n.t = "dict"
HasKey(n, k) == IsDict(n) /\ k \in DOMAIN n.d

W(s) == <<s>>
StrIs(n, s) == IsStr(n) /\ n.v = W(s)

(* A raised exception, as a value that propagates through the evaluation.  *)
Exc(kind) == [t |-> "exc", kind |-> kind]
IsExc(x) == x.t = "exc"

-----------------------------------------------------------------------------
(* Lexical classes: which words the grammar's patterns accept.             *)

\* characters that end a value / keyword_query lexeme ('+' is not in the alphabet)
Punct == {":", ">", "(", ")", "[", "]", "{", "}"}

\* segments made of [a-zA-Z0-9_] only, first character a letter or '_'
IdentStart == {"aa", "bb", "cc", "ff", "gg", "v", "w", "x", "AND", "OR", "NOT",
               "TO", "now", "_exists_"}
\* segments made of [a-zA-Z0-9_] only (any first character), the empty one included
IdentRest == IdentStart \cup {"", "1"}
\* segments that are a single character
OneChar == {"v", "w", "x", "1"}

IsPunct(w) == Len(w) = 1 /\ w[1] \in Punct

\* value = /[^\s:>()[\]{}+]+/  and keyword_query, the same pattern
MatchesValue(w) == ~IsPunct(w)

\* keyword = !("AND" | "OR" | "NOT") /[^\s:>()[\]{}+~]+/
MatchesKeyword(w) ==
    /\ ~IsPunct(w)
    /\ w # W("~")
    /\ w \notin {W("AND"), W("OR"), W("NOT")}

\* field = /[a-zA-Z_][a-zA-Z0-9_.]+/ : an identifier start, at least two characters
MatchesField(w) ==
    /\ Len(w) >= 1
    /\ w[1] \in IdentStart
    /\ \A i \in 2..Len(w) : w[i] \in IdentRest
    /\ (Len(w) > 1 \/ w[1] \notin OneChar)

\* a literal token of the grammar at position pos
Lit(toks, pos, s) == pos <= Len(toks) /\ toks[pos] = W(s)

-----------------------------------------------------------------------------
(* The grammar (PEG, ordered choice).  Every rule is an operator from a    *)
(* token sequence and a position to [ok, pos, ast].                        *)

Fail == [ok |-> FALSE, pos |-> 0, ast |-> Str(W(""))]
Ok(pos, ast) == [ok |-> TRUE, pos |-> pos, ast |-> ast]

\* the operator tokens with those of or_expr and and_expr exchanged
LevelOpExchanged(lvl) == CASE lvl = "or" -> "AND" [] lvl = "and" -> "OR" [] OTHER -> "~"

\* the operator token of or_expr, and_expr, tilde_expr
LevelOp(lvl) == CASE lvl = "or" -> "OR" [] lvl = "and" -> "AND" [] OTHER -> "~"

\* the rules call one another through Parse, the rule table at the end
RECURSIVE Parse(_, _, _)
RECURSIVE ParseKeywords(_, _)

\* range_value = '[' gte 'TO' lte ']' | '{' gt 'TO' lt '}' ; datetime_value accepts
\* every value lexeme ('now', a date, or value), giving its text
ParseRangeValue(toks, pos) ==
    LET closed(open, close) ==
            /\ Lit(toks, pos, open)
            /\ pos + 4 <= Len(toks)
            /\ MatchesValue(toks[pos + 1])
            /\ Lit(toks, pos + 2, "TO")
            /\ MatchesValue(toks[pos + 3])
            /\ Lit(toks, pos + 4, close)
    IN  IF closed("[", "]")
        THEN Ok(pos + 5, Dict([gte |-> Str(toks[pos + 1]), lte |-> Str(toks[pos + 3])]))
        ELSE IF closed("{", "}")
        THEN Ok(pos + 5, Dict([gt |-> Str(toks[pos + 1]), lt |-> Str(toks[pos + 3])]))
        ELSE Fail

\* keyword_sequence's rest:{keyword}
ParseKeywords(toks, pos) ==
    IF pos <= Len(toks) /\ MatchesKeyword(toks[pos])
    THEN LET r == ParseKeywords(toks, pos + 1)
         IN  [pos |-> r.pos, items |-> <<Str(toks[pos])>> \o r.items]
    ELSE [pos |-> pos, items |-> <<>>]

\* keyword_sequence = first:keyword rest:{keyword}
ParseKeywordSequence(toks, pos) ==
    IF pos <= Len(toks) /\ MatchesKeyword(toks[pos])
    THEN LET r == ParseKeywords(toks, pos + 1)
         IN  Ok(r.pos, Dict([first |-> Str(toks[pos]), rest |-> List(r.items)]))
    ELSE Fail

\* keyword_query = /[^\s:>()[\]{}+]+/
ParseKeywordQuery(toks, pos) ==
    IF pos <= Len(toks) /\ MatchesValue(toks[pos])
    THEN Ok(pos + 1, Str(toks[pos]))
    ELSE Fail

\* or_expr, and_expr, tilde_expr = left:sub rest:{OP right:sub}
ParseSub(lvl, toks, pos) ==
    Parse(CASE lvl = "or" -> "and_expr" [] lvl = "and" -> "tilde_expr"
            [] OTHER -> "not_expr",
          toks, pos)

RECURSIVE ParseRest(_, _, _)
ParseRest(lvl, toks, pos) ==
    IF Lit(toks, pos, LevelOp(lvl))
    THEN LET r == ParseSub(lvl, toks, pos + 1)
         IN  IF r.ok
             THEN LET more == ParseRest(lvl, toks, r.pos)
                  IN  [pos |-> more.pos,
                       items |-> <<List(<<Str(W(LevelOp(lvl))), r.ast>>)>> \o more.items]
             ELSE [pos |-> pos, items |-> <<>>]
    ELSE [pos |-> pos, items |-> <<>>]

ParseLevel(lvl, toks, pos) ==
    LET l == ParseSub(lvl, toks, pos)
    IN  IF ~l.ok THEN Fail
        ELSE LET r == ParseRest(lvl, toks, l.pos)
             IN  Ok(r.pos, Dict([left |-> l.ast, rest |-> List(r.items)]))

\* expr = or_expr ; nested_expr = expr
ParseExpr(toks, pos) == Parse("or_expr", toks, pos)

\* not_expr = 'NOT' not_expr | primary
ParseNot(toks, pos) ==
    LET n == IF Lit(toks, pos, "NOT") THEN Parse("not_expr", toks, pos + 1) ELSE Fail
    IN  IF n.ok
        THEN Ok(n.pos, List(<<Str(W("NOT")), n.ast>>))
        ELSE Parse("primary", toks, pos)

\* '(' expr ')'
ParseParens(toks, pos) ==
    IF Lit(toks, pos, "(")
    THEN LET e == ParseExpr(toks, pos + 1)
         IN  IF e.ok /\ Lit(toks, e.pos, ")") THEN Ok(e.pos + 1, e.ast) ELSE Fail
    ELSE Fail

\* grouped_match = field:field ':' '(' group:expr ')'
ParseGroupedMatch(toks, pos) ==
    IF /\ pos + 2 <= Len(toks)
       /\ MatchesField(toks[pos])
       /\ Lit(toks, pos + 1, ":")
       /\ Lit(toks, pos + 2, "(")
    THEN LET e == ParseExpr(toks, pos + 3)
         IN  IF e.ok /\ Lit(toks, e.pos, ")")
             THEN Ok(e.pos + 1, Dict([field |-> Str(toks[pos]), group |-> e.ast]))
             ELSE Fail
    ELSE Fail

\* basic_match = grouped_match | field ':' value | field:field ':' range:range_value
ParseBasicMatch(toks, pos) ==
    LET g == Parse("grouped_match", toks, pos)
        head == pos + 1 <= Len(toks) /\ MatchesField(toks[pos]) /\ Lit(toks, pos + 1, ":")
        rv == ParseRangeValue(toks, pos + 2)
    IN  IF g.ok THEN g
        ELSE IF head /\ pos + 2 <= Len(toks) /\ MatchesValue(toks[pos + 2])
        THEN Ok(pos + 3, List(<<Str(toks[pos]), Str(W(":")), Str(toks[pos + 2])>>))
        ELSE IF head /\ rv.ok
        THEN Ok(rv.pos, Dict([field |-> Str(toks[pos]), range |-> rv.ast]))
        ELSE Fail

\* nested_target = '(' @:nested_expr ')' | basic_match
ParseNestedTarget(toks, pos) ==
    LET p == Parse("parens", toks, pos)
    IN  IF p.ok THEN p ELSE Parse("basic_match", toks, pos)

\* nested_query = path:field '>' query:nested_target
ParseNestedQuery(toks, pos) ==
    IF pos + 1 <= Len(toks) /\ MatchesField(toks[pos]) /\ Lit(toks, pos + 1, ">")
    THEN LET q == Parse("nested_target", toks, pos + 2)
         IN  IF q.ok
             THEN Ok(q.pos, Dict([path |-> Str(toks[pos]), query |-> q.ast]))
             ELSE Fail
    ELSE Fail

\* primary = '(' ~ @:expr ')' | nested_query | basic_match | keyword_sequence
\*         | keyword_query
\* (after '(' the cut forbids the other options; none of them accepts '(')
ParsePrimary(toks, pos) ==
    IF Lit(toks, pos, "(") THEN Parse("parens", toks, pos)
    ELSE LET n == Parse("nested_query", toks, pos)
             b == Parse("basic_match", toks, pos)
             k == ParseKeywordSequence(toks, pos)
         IN  IF n.ok THEN n
             ELSE IF b.ok THEN b
             ELSE IF k.ok THEN k
             ELSE ParseKeywordQuery(toks, pos)

Parse(rule, toks, pos) ==
    CASE rule = "or_expr" -> ParseLevel("or", toks, pos)
      [] rule = "and_expr" -> ParseLevel("and", toks, pos)
      [] rule = "tilde_expr" -> ParseLevel("tilde", toks, pos)
      [] rule = "not_expr" -> ParseNot(toks, pos)
      [] rule = "primary" -> ParsePrimary(toks, pos)
      [] rule = "parens" -> ParseParens(toks, pos)
      [] rule = "nested_query" -> ParseNestedQuery(toks, pos)
      [] rule = "nested_target" -> ParseNestedTarget(toks, pos)
      [] rule = "basic_match" -> ParseBasicMatch(toks, pos)
      [] rule = "grouped_match" -> ParseGroupedMatch(toks, pos)

\* start = directives:directive_list expr:expr $ ; the directives are lexed apart
\* (see Input), the expression must reach the end of the text
ParseStart(toks) ==
    LET e == ParseExpr(toks, 1)
    IN  IF e.ok /\ e.pos = Len(toks) + 1 THEN e ELSE Fail

-----------------------------------------------------------------------------
(* ast_to_es: unwrap, simplify.                                            *)

\* Python truthiness of a parse-tree value ("not node.get('rest')", "if not entry")
Truthy(n) ==
    CASE IsList(n) -> n.items # <<>>
      [] IsStr(n) -> n.v # W("")
      [] IsDict(n) -> DOMAIN n.d # {}
      [] OTHER -> TRUE

GetOrEmpty(n, k) == IF HasKey(n, k) /\ Truthy(n.d[k]) THEN n.d[k] ELSE List(<<>>)

RECURSIVE unwrap(_)
unwrap(node) ==
    IF /\ IsDict(node)
       /\ DOMAIN node.d \subseteq {"left", "rest"}
       /\ ~(HasKey(node, "rest") /\ Truthy(node.d["rest"]))
       /\ "left" \in DOMAIN node.d
    THEN unwrap(node.d["left"])
    ELSE node

RECURSIVE simplify(_)
RECURSIVE FoldRest(_, _, _)

\* the loop over rest_entries of simplify's "left" branch
FoldRest(acc, entries, i) ==
    IF i > Len(entries) THEN acc
    ELSE LET entry == entries[i]
         IN  IF ~Truthy(entry) THEN FoldRest(acc, entries, i + 1)
             ELSE IF IsList(entry) /\ Len(entry.items) = 2
             THEN FoldRest(List(<<acc, entry.items[1], simplify(entry.items[2])>>),
                           entries, i + 1)
             ELSE FoldRest(List(<<acc, simplify(entry)>>), entries, i + 1)

simplify(n0) ==
    LET node == unwrap(n0)
    IN  IF IsDict(node)
        THEN IF HasKey(node, "first")
             THEN LET tokens == <<node.d["first"]>> \o GetOrEmpty(node, "rest").items
                  IN  IF Len(tokens) = 1 THEN tokens[1] ELSE List(tokens)
             ELSE IF HasKey(node, "path") /\ HasKey(node, "query")
             THEN Dict([path |-> node.d["path"], query |-> simplify(node.d["query"])])
             ELSE IF HasKey(node, "field") /\ HasKey(node, "group")
             THEN Dict([field |-> node.d["field"], group |-> simplify(node.d["group"])])
             ELSE IF HasKey(node, "field") /\ HasKey(node, "range")
             THEN Dict([field |-> node.d["field"], range |-> simplify(node.d["range"])])
             ELSE IF HasKey(node, "left")
             THEN FoldRest(simplify(node.d["left"]), GetOrEmpty(node, "rest").items, 1)
             ELSE Dict([k \in DOMAIN node.d |-> simplify(node.d[k])])
        ELSE IF IsList(node)
        THEN List([i \in 1..Len(node.items) |-> simplify(node.items[i])])
        ELSE node

-----------------------------------------------------------------------------
(* Directives and the query_string options.                                *)

QUERY_STRING_OPTION_KEYS ==
    {"default_field", "default_operator", "analyzer", "quote_analyzer",
     "allow_leading_wildcard", "auto_generate_synonyms_phrase_query", "fields"}

EmptyMap == [k \in {} |-> <<>>]

\* the directives with the first entry of a key kept
RECURSIVE DirectivesDictFirstWins(_)
DirectivesDictFirstWins(list) ==
    IF list = <<>> THEN EmptyMap
    ELSE LET m == DirectivesDictFirstWins(SubSeq(list, 1, Len(list) - 1))
             last == list[Len(list)]
         IN  [k \in DOMAIN m \cup {last.key} |-> IF k \in DOMAIN m THEN m[k] ELSE last.value]

\* {item["key"]: item["value"] for item in directives_list}: later entries overwrite
RECURSIVE DirectivesDict(_)
DirectivesDict(list) ==
    IF list = <<>> THEN EmptyMap
    ELSE LET m == DirectivesDict(SubSeq(list, 1, Len(list) - 1))
             last == list[Len(list)]
         IN  [k \in DOMAIN m \cup {last.key} |-> IF k = last.key THEN last.value ELSE m[k]]

\* [f.strip() for f in value.split(",") if f.strip()]: the value's comma-separated
\* parts hold no blank (directive_value = /[^\s]+/), so strip() leaves each as it is
ParsedFields(value) == SelectSeq(value, LAMBDA part : part # "")

OptionValue(directives, key) ==
    IF key = "fields"
    THEN [kind |-> "list", parts |-> ParsedFields(directives[key])]
    ELSE [kind |-> "str", parts |-> directives[key]]

apply_query_string_options(text, directives) ==
    LET present == {key \in QUERY_STRING_OPTION_KEYS \cap DOMAIN directives :
                        key = "fields" => ParsedFields(directives[key]) # <<>>}
    IN  [t |-> "query_string", query |-> text,
         options |-> [key \in present |-> OptionValue(directives, key)]]

-----------------------------------------------------------------------------
(* The documents and the lowering (process_expr).                          *)

Absent == <<>>
Present(v) == <<v>>

create_match(field, value) ==
    IF IsStr(field)
    THEN [t |-> "match", field |-> field.v, value |-> value]
    ELSE Exc("TypeError")       \* an unhashable dict key

create_exists(field) == [t |-> "exists", field |-> field]

BoolType(operator) ==
    CASE operator = "AND" -> "must"
      [] operator = "~" -> "must"
      [] operator = "OR" -> "should"
      [] operator = "NOT" -> "must_not"

\* operator is a parse-tree value: the table lookup raises KeyError for a string that
\* is no operator and TypeError for an unhashable list or dict
create_bool_query(operator, queries) ==
    IF ~IsStr(operator) THEN Exc("TypeError")
    ELSE IF operator.v \notin {W("AND"), W("~"), W("OR"), W("NOT")} THEN Exc("KeyError")
    ELSE LET bool_type == BoolType(operator.v[1])
         IN  [t |-> "bool", clause |-> bool_type, queries |-> queries,
              minimum_should_match |-> IF bool_type = "should" THEN Present(1) ELSE Absent]

\* field_name.startswith(f"{path}.")
StartsWithPath(field_name, path) ==
    /\ Len(field_name) > Len(path)
    /\ SubSeq(field_name, 1, Len(path)) = path

\* prefix_field without its test for a name that already has the path
prefix_field_always(field_name, path) == path \o field_name

prefix_field(field_name, path) ==
    IF StartsWithPath(field_name, path) THEN field_name ELSE path \o field_name

\* the first exception of a list of results, in evaluation order; none: Absent
RECURSIVE FirstExc(_, _)
FirstExc(results, i) ==
    IF i > Len(results) THEN Absent
    ELSE IF IsExc(results[i]) THEN Present(results[i])
    ELSE FirstExc(results, i + 1)

\* Python's "key in query" for a dict (its keys) or a list (its items)
KeyIn(key, query) ==
    CASE query.t \in {"match", "range", "exists", "bool", "nested", "query_string"} ->
            query.t = key
      [] IsDict(query) -> key \in DOMAIN query.d
      [] IsList(query) -> \E i \in 1..Len(query.items) : StrIs(query.items[i], key)
      [] OTHER -> FALSE

RECURSIVE prefix_nested_fields(_, _)

\* prefix_nested_fields without its descent into the clauses of a bool
prefix_nested_fields_no_bool(query, path) ==
    IF KeyIn("match", query)
    THEN [query EXCEPT !.field = prefix_field(query.field, path)]
    ELSE IF KeyIn("range", query)
    THEN [query EXCEPT !.field = prefix_field(query.field, path)]
    ELSE IF KeyIn("exists", query) /\ IsStr(query.field)
    THEN [query EXCEPT !.field = Str(prefix_field(query.field.v, path))]
    ELSE query

\* prefix_nested_fields rebuilding a bool from its clauses only
prefix_nested_fields_clauses_only(query, path) ==
    IF KeyIn("bool", query)
    THEN [query EXCEPT
            !.queries = [i \in 1..Len(query.queries) |->
                            prefix_nested_fields(query.queries[i], path)],
            !.minimum_should_match = Absent]
    ELSE prefix_nested_fields_no_bool(query, path)

prefix_nested_fields(query, path) ==
    IF KeyIn("match", query)
    THEN [query EXCEPT !.field = prefix_field(query.field, path)]
    ELSE IF KeyIn("range", query)
    THEN [query EXCEPT !.field = prefix_field(query.field, path)]
    ELSE IF KeyIn("exists", query)
    THEN IF IsStr(query.field)
         THEN [query EXCEPT !.field = Str(prefix_field(query.field.v, path))]
         ELSE Exc("AttributeError")
    ELSE IF KeyIn("bool", query)
    THEN LET inner == [i \in 1..Len(query.queries) |->
                            prefix_nested_fields(query.queries[i], path)]
             e == FirstExc(inner, 1)
         IN  IF e # Absent THEN e[1] ELSE [query EXCEPT !.queries = inner]
    ELSE query

create_nested_query(path, query) ==
    LET q == prefix_nested_fields(query, path)
    IN  IF IsExc(q) THEN q ELSE [t |-> "nested", path |-> path, query |-> q]

RECURSIVE apply_group(_, _)
\* apply_group without its case for ["NOT", x]
apply_group_without_not(field, expr) ==
    IF IsStr(expr) THEN List(<<field, Str(W(":")), expr>>)
    ELSE IF IsList(expr)
    THEN IF expr.items = <<>> THEN expr
         ELSE IF /\ Len(expr.items) = 3
                 /\ \E op \in {"AND", "OR", "~"} : StrIs(expr.items[2], op)
         THEN List(<<apply_group(field, expr.items[1]), expr.items[2],
                     apply_group(field, expr.items[3])>>)
         ELSE List([i \in 1..Len(expr.items) |-> apply_group(field, expr.items[i])])
    ELSE expr

apply_group(field, expr) ==
    IF IsStr(expr) THEN List(<<field, Str(W(":")), expr>>)
    ELSE IF IsList(expr)
    THEN IF expr.items = <<>> THEN expr
         ELSE IF Len(expr.items) = 2 /\ StrIs(expr.items[1], "NOT")
         THEN List(<<Str(W("NOT")), apply_group(field, expr.items[2])>>)
         ELSE IF /\ Len(expr.items) = 3
                 /\ \E op \in {"AND", "OR", "~"} : StrIs(expr.items[2], op)
         THEN List(<<apply_group(field, expr.items[1]), expr.items[2],
                     apply_group(field, expr.items[3])>>)
         ELSE List([i \in 1..Len(expr.items) |-> apply_group(field, expr.items[i])])
    ELSE expr

\* " ".join(items)
JoinWords(items) == [i \in 1..Len(items) |-> items[i].v]

RECURSIVE process_expr(_, _)
process_expr(expr, directives) ==
    LET n == IF IsList(expr) THEN Len(expr.items) ELSE 0 - 1
        it == expr.items
        both(a, b) == <<process_expr(a, directives), process_expr(b, directives)>>
    IN  IF n = 3 /\ StrIs(it[2], ":")
        THEN IF StrIs(it[1], "_exists_") THEN create_exists(it[3])
             ELSE create_match(it[1], it[3])
        ELSE IF n = 2 /\ StrIs(it[1], "NOT")
        THEN LET sub == process_expr(it[2], directives)
             IN  IF IsExc(sub) THEN sub ELSE create_bool_query(Str(W("NOT")), <<sub>>)
        ELSE IF n = 3 /\ StrIs(it[2], ">")
        THEN LET sub == process_expr(it[3], directives)
             IN  IF IsExc(sub) THEN sub
                 ELSE IF IsStr(it[1]) THEN create_nested_query(it[1].v, sub)
                 ELSE Exc("Unmodelled")
        ELSE IF HasKey(expr, "path") /\ HasKey(expr, "query")
        THEN LET sub == process_expr(expr.d["query"], directives)
             IN  IF IsExc(sub) THEN sub
                 ELSE IF IsStr(expr.d["path"]) THEN create_nested_query(expr.d["path"].v, sub)
                 ELSE Exc("Unmodelled")
        ELSE IF HasKey(expr, "first") /\ HasKey(expr, "rest")
        THEN LET tokens == <<expr.d["first"]>> \o GetOrEmpty(expr, "rest").items
             IN  IF \A i \in 1..Len(tokens) : IsStr(tokens[i])
                 THEN apply_query_string_options(JoinWords(tokens), directives)
                 ELSE Exc("TypeError")
        ELSE IF HasKey(expr, "field") /\ HasKey(expr, "group")
        THEN process_expr(apply_group(expr.d["field"], expr.d["group"]), directives)
        ELSE IF n = 3 /\ StrIs(it[2], "~")
        THEN LET subs == both(it[1], it[3])
                 e == FirstExc(subs, 1)
             IN  IF e # Absent THEN e[1]
                 ELSE [t |-> "bool", clause |-> "must", queries |-> subs,
                       minimum_should_match |-> Absent]
        ELSE IF n = 3
        THEN LET subs == both(it[1], it[3])
                 e == FirstExc(subs, 1)
             IN  IF e # Absent THEN e[1] ELSE create_bool_query(it[2], subs)
        ELSE IF HasKey(expr, "field") /\ HasKey(expr, "range")
        THEN IF IsStr(expr.d["field"])
             THEN [t |-> "range", field |-> expr.d["field"].v, body |-> expr.d["range"]]
             ELSE Exc("TypeError")
        ELSE IF n = 2 /\ IsList(it[2]) /\ it[2].items = <<>>
        THEN process_expr(it[1], directives)
        ELSE IF n >= 0 /\ \A i \in 1..n : IsStr(it[i])
        THEN apply_query_string_options(JoinWords(it), directives)
        ELSE IF IsStr(expr)
        THEN apply_query_string_options(<<expr.v>>, directives)
        ELSE expr

\* ast_to_es(expr, directives); "if not ast: return {}" first
ast_to_es(ast, directives) ==
    IF ~Truthy(ast) THEN [t |-> "empty"]
    ELSE process_expr(simplify(ast), directives)

\* parse_query: FailedParse becomes ValueError, anything else raised escapes as it is
parse_query(directives, toks) ==
    LET p == ParseStart(toks)
    IN  IF p.ok THEN ast_to_es(p.ast, DirectivesDict(directives))
        ELSE Exc("ValueError")

-----------------------------------------------------------------------------
(* The HTTP glue (src/src/nest/middleware.py) and the direct call.         *)

NoneV == [t |-> "None"]
RequestObj == [t |-> "Request"]
Pending == [t |-> "pending"]

\* a query text: its leading directives and the lexemes of its expression
Text(directives, toks) == [directives |-> directives, tokens |-> toks]
EmptyText == Text(<<>>, <<>>)

parse_text(text) == parse_query(text.directives, text.tokens)

\* request.args / request.query_params: the query text under the configured parameter
\* name when the request carries it, and the request's other parameters
RequestArgs(in) ==
    [k \in DOMAIN in.extra \cup (IF in.present THEN {in.query_param} ELSE {}) |->
        IF in.present /\ k = in.query_param THEN in.text ELSE in.extra[k]]

\* args.get(name): the value, or None
ArgsGet(args, name) == IF name \in DOMAIN args THEN args[name] ELSE NoneV

\* "if query_string:" : neither None nor the empty string
TruthyText(v) == v # NoneV /\ v # EmptyText

Update(m1, m2) ==
    [k \in DOMAIN m1 \cup DOMAIN m2 |-> IF k \in DOMAIN m2 THEN m2[k] ELSE m1[k]]
Pop(m, key) == [k \in DOMAIN m \ {key} |-> m[k]]

\* a text's lexemes, each of one segment
Toks(strings) == [i \in 1..Len(strings) |-> W(strings[i])]

\* HTTP requests: with and without the query parameter, under either parameter name,
\* with other parameters, to endpoints with and without a request argument
HttpTexts ==
    { EmptyText,
      Text(<<>>, Toks(<<"aa", ":", "v">>)),
      Text(<<>>, Toks(<<"v">>)),
      Text(<<>>, Toks(<<">", "aa">>)),
      Text(<<>>, Toks(<<"aa", "v", "w">>)) }
QueryParams == {"query", "q"}
ExtraValue == Text(<<>>, Toks(<<"1">>))
HttpExtras ==
    {EmptyMap, [page |-> ExtraValue], [parsed_query |-> ExtraValue],
     [query |-> ExtraValue]}

\* the requests: a query text or none under the configured name, other parameters,
\* an endpoint that takes the request or not
HttpInputs ==
    { in \in [text : HttpTexts, present : BOOLEAN, query_param : QueryParams,
              extra : HttpExtras, takesRequest : BOOLEAN] :
        in.query_param \notin DOMAIN in.extra }

\* the per-request storage as a request finds it: flask.g and request.scope belong
\* to one request
FreshStorage == EmptyMap

\* the paths prefix_nested_fields is called with: one and two segments
PrefixPaths == {W("aa"), <<"aa", "cc">>}

\* a direct call of parse_query, as cli.py's search makes it
ParseQueryCall ==
    /\ pc = "ready"
    /\ client = "none"
    /\ client' = "lib"
    /\ outcome' = parse_text(input.text)
    /\ pc' = "done"
    /\ UNCHANGED <<given, input, store>>

\* flask_query_parser_middleware's before_request; an exception other than ValueError
\* leaves the hook, and the request ends in an error response without its handler
FlaskBeforeRequest ==
    /\ pc = "ready"
    /\ client \in {"none", "flask"}
    /\ client' = "flask"
    /\ LET args == RequestArgs(input)
           query_string == ArgsGet(args, input.query_param)
           parsed == parse_text(query_string)
       IN  IF ~TruthyText(query_string)
           THEN /\ store' = [query_args |-> args]
                /\ pc' = "flask_mw"
                /\ outcome' = outcome
           ELSE IF ~IsExc(parsed)
           THEN /\ store' = [query_args |-> args, parsed_query |-> parsed]
                /\ pc' = "flask_mw"
                /\ outcome' = outcome
           ELSE IF parsed.kind = "ValueError"
           THEN /\ store' = [query_args |-> args, parsed_query |-> NoneV]
                /\ pc' = "flask_mw"
                /\ outcome' = outcome
           ELSE /\ store' = [query_args |-> args]
                /\ pc' = "done"
                /\ outcome' = [t |-> "error_response", exc |-> parsed.kind]
    /\ UNCHANGED <<given, input>>

\* use_flask_query_parser's decorated_function, called by the route
FlaskHandler ==
    /\ pc = "flask_mw"
    /\ LET kwargs0 == EmptyMap
           kwargs1 == IF "parsed_query" \in DOMAIN store
                      THEN Update(kwargs0, [parsed_query |-> store.parsed_query])
                      ELSE kwargs0
           kwargs2 == IF "query_args" \in DOMAIN store
                      THEN Update(kwargs1, Pop(store.query_args, "query"))
                      ELSE kwargs1
       IN  outcome' = [t |-> "handler", kwargs |-> kwargs2]
    /\ pc' = "done"
    /\ UNCHANGED <<given, input, client, store>>

\* FastAPIQueryParserMiddleware.dispatch up to call_next
FastAPIDispatch ==
    /\ pc = "ready"
    /\ client \in {"none", "fastapi"}
    /\ client' = "fastapi"
    /\ LET args == RequestArgs(input)
           query_string == ArgsGet(args, input.query_param)
           parsed == parse_text(query_string)
       IN  store' = [parsed_query |->
                        IF TruthyText(query_string) /\ ~IsExc(parsed)
                        THEN parsed ELSE NoneV]
    /\ pc' = "fastapi_mw"
    /\ UNCHANGED <<given, input, outcome>>

\* use_fastapi_query_parser's decorated_function; FastAPI passes request only to an
\* endpoint whose signature declares it
FastAPIHandler ==
    /\ pc = "fastapi_mw"
    /\ LET kwargs0 == IF input.takesRequest THEN [request |-> RequestObj] ELSE EmptyMap
           kwargs1 == IF "request" \in DOMAIN kwargs0
                      THEN Update(kwargs0,
                                  [parsed_query |-> IF "parsed_query" \in DOMAIN store
                                                    THEN store.parsed_query ELSE NoneV])
                      ELSE kwargs0
       IN  outcome' = [t |-> "handler", kwargs |-> kwargs1]
    /\ pc' = "done"
    /\ UNCHANGED <<given, input, client, store>>

\* the rewrite create_nested_query makes, prefix_nested_fields(query, path), applied
\* to a document the lowerer produced
PrefixCall ==
    /\ pc = "ready"
    /\ client = "none"
    /\ ~IsExc(parse_text(input.text))
    /\ \E path \in PrefixPaths :
            outcome' = prefix_nested_fields(parse_text(input.text), path)
    /\ client' = "prefix"
    /\ pc' = "done"
    /\ UNCHANGED <<given, input, store>>

\* the application, answered one request, receives the next one: the same
\* middleware with the same query_param, and the storage of a new request
NextRequest ==
    /\ pc = "done"
    /\ client \in {"flask", "fastapi"}
    /\ \E in \in HttpInputs :
            /\ in.query_param = input.query_param
            /\ input' = in
    /\ given' = [pool |-> "http"]
    /\ store' = FreshStorage
    /\ outcome' = Pending
    /\ pc' = "ready"
    /\ UNCHANGED client

Next ==
    \/ ParseQueryCall
    \/ PrefixCall
    \/ NextRequest
    \/ FlaskBeforeRequest
    \/ FlaskHandler
    \/ FastAPIDispatch
    \/ FastAPIHandler

-----------------------------------------------------------------------------
(* Inputs.  Every specification starts from one pool of query texts.       *)

\* a request that carries the text as ?query=..., to an endpoint taking the request
PlainInput(text) ==
    [text |-> text, present |-> TRUE, query_param |-> "query", extra |-> EmptyMap,
     takesRequest |-> TRUE]

Start(g, in) ==
    /\ given = g
    /\ input = in
    /\ pc = "ready"
    /\ client = "none"
    /\ store = EmptyMap
    /\ outcome = Pending

\* the longest text of the pool of all texts
MaxLen == 4

RawAlphabet ==
    {W("aa"), W("v"), W("NOT"), W("OR"), W("AND"), W("~"),
     W(":"), W(">"), W("("), W(")")}

RECURSIVE SeqsUpTo(_, _)
SeqsUpTo(S, n) ==
    IF n = 0 THEN {<<>>}
    ELSE LET shorter == SeqsUpTo(S, n - 1)
         IN  shorter \cup {Append(s, x) : s \in {t \in shorter : Len(t) = n - 1}, x \in S}

\* every text of at most MaxLen lexemes
InitRaw ==
    \E toks \in SeqsUpTo(RawAlphabet, MaxLen) :
        Start([pool |-> "raw"], PlainInput(Text(<<>>, toks)))

(* Expressions of up to three operands: [NOT] A [op1 [NOT] B [op2 [NOT] C]], *)
(* written without parentheses or with one pair around the left or the      *)
(* right operator.                                                          *)
Operators == {"OR", "AND", "~"}

Shapes ==
    [arity : {1}, na : BOOLEAN, nb : {FALSE}, nc : {FALSE}, op1 : {"OR"}, op2 : {"OR"},
     paren : {"none"}]
    \cup [arity : {2}, na : BOOLEAN, nb : BOOLEAN, nc : {FALSE}, op1 : Operators,
          op2 : {"OR"}, paren : {"none"}]
    \cup [arity : {3}, na : BOOLEAN, nb : BOOLEAN, nc : BOOLEAN, op1 : Operators,
          op2 : Operators, paren : {"none", "left", "right"}]

Negated(flag, operand) == IF flag THEN <<W("NOT")>> \o operand ELSE operand

\* the lexemes of the expression of shape sh over the operands A, B, C
Body(sh, A, B, C) ==
    LET a == Negated(sh.na, A)
        b == Negated(sh.nb, B)
        c == Negated(sh.nc, C)
        o1 == <<W(sh.op1)>>
        o2 == <<W(sh.op2)>>
    IN  CASE sh.arity = 1 -> a
          [] sh.arity = 2 -> a \o o1 \o b
          [] sh.arity = 3 /\ sh.paren = "none" -> a \o o1 \o b \o o2 \o c
          [] sh.arity = 3 /\ sh.paren = "left" ->
                <<W("(")>> \o a \o o1 \o b \o <<W(")")>> \o o2 \o c
          [] sh.arity = 3 /\ sh.paren = "right" ->
                a \o o1 \o <<W("(")>> \o b \o o2 \o c \o <<W(")")>>

\* the operand triples of a shape: the operands it does not use are empty
Triples(sh, Operands) ==
    {<<A, B, C>> \in Operands \X (IF sh.arity >= 2 THEN Operands ELSE {<<>>})
                              \X (IF sh.arity >= 3 THEN Operands ELSE {<<>>}) : TRUE}

\* operands of the precedence pool: primaries of every kind
PrecOperands ==
    { Toks(<<"aa", ":", "v">>),
      Toks(<<"v">>),
      Toks(<<"(", "bb", ":", "w", "OR", "v", "w", ")">>),
      Toks(<<"aa", ">", "bb", ":", "v">>) }

InitPrec ==
    \E sh \in Shapes : \E abc \in Triples(sh, PrecOperands) :
        Start([pool |-> "prec", shape |-> sh, A |-> abc[1], B |-> abc[2], C |-> abc[3]],
              PlainInput(Text(<<>>, Body(sh, abc[1], abc[2], abc[3]))))

\* operands of the grouped pool: single bare keywords
GroupLeaves == {Toks(<<"v">>), Toks(<<"w">>)}
GroupFields == {W("ff"), W("_exists_")}

\* field:( G )
Grouped(field, G) == <<field, W(":"), W("(")>> \o G \o <<W(")")>>

InitGroup ==
    \E sh \in Shapes : \E abc \in Triples(sh, GroupLeaves) : \E f \in GroupFields :
        Start([pool |-> "group", shape |-> sh, A |-> abc[1], B |-> abc[2], C |-> abc[3],
               field |-> f],
              PlainInput(Text(<<>>, Grouped(f, Body(sh, abc[1], abc[2], abc[3])))))

\* operands of the nested pool: every kind of clause, fields with and without the path
NestedOperands ==
    { Toks(<<"bb", ":", "v">>),
      <<<<"aa", "cc">>, W(":"), W("v")>>,
      Toks(<<"aa", ":", "v">>),
      Toks(<<"_exists_", ":", "bb">>),
      Toks(<<"bb", ":", "[", "v", "TO", "now", "]">>),
      Toks(<<"v">>),
      Toks(<<"bb", ">", "cc", ":", "v">>),
      <<W("bb"), W(">"), W("("), W("cc"), W(":"), W("v"), W("OR"),
        <<"aa", "cc">>, W(":"), W("w"), W(")")>>,
      Toks(<<"gg", ":", "(", "v", "OR", "w", ")">>) }
NestedPaths == {W("aa"), <<"aa", "cc">>}
NestedShapes == {sh \in Shapes : sh.arity <= 2}

\* path>( E ), path>E for a single basic match, or E alone
NestedText(path, wrap, E) ==
    CASE wrap = "direct" -> <<path, W(">")>> \o E
      [] wrap = "parens" -> <<path, W(">"), W("(")>> \o E \o <<W(")")>>
      [] wrap = "plain" -> E

IsBasicMatch(operand) == Len(operand) >= 3 /\ operand[2] = W(":")

InitNested ==
    \E sh \in NestedShapes : \E abc \in Triples(sh, NestedOperands) :
    \E path \in NestedPaths : \E wrap \in {"parens", "direct", "plain"} :
        /\ wrap = "direct" => (sh.arity = 1 /\ ~sh.na /\ IsBasicMatch(abc[1]))
        /\ wrap = "plain" => path = W("aa")
        /\ Start([pool |-> "nested", shape |-> sh, A |-> abc[1], B |-> abc[2],
                  C |-> abc[3], path |-> path, wrap |-> wrap],
                 PlainInput(Text(<<>>,
                     NestedText(path, wrap, Body(sh, abc[1], abc[2], abc[3])))))

\* the longest directive list of the directive pool
MaxDirectives == 2

DirectiveKeys == {"default_field", "fields", "analyzer", "boost"}
DirectiveValues == {<<"title">>, <<"title", "body">>, <<"", "">>, <<"", "body", "">>}
Directives == [key : DirectiveKeys, value : DirectiveValues]

DirectiveBodies ==
    { Toks(<<"v">>),
      Toks(<<"v", "w">>),
      Toks(<<"aa", ":", "v">>),
      Toks(<<"v", "OR", "aa", ":", "v", "AND", "NOT", "w", "x">>),
      Toks(<<"aa", ">", "(", "v", "~", "_exists_", ":", "bb", ")">>),
      Toks(<<"bb", ":", "{", "v", "TO", "now", "}">>),
      Toks(<<"ff", ":", "(", "v", "w", "x", "v", ")">>),
      <<>> }

InitDir ==
    \E ds \in SeqsUpTo(Directives, MaxDirectives) : \E body \in DirectiveBodies :
        Start([pool |-> "dir"], PlainInput(Text(ds, body)))

InitHttp == \E in \in HttpInputs : Start([pool |-> "http"], in)

Init == InitRaw \/ InitPrec \/ InitGroup \/ InitNested \/ InitDir \/ InitHttp

Spec == Init /\ [][Next]_vars
SpecRaw == InitRaw /\ [][Next]_vars
SpecPrec == InitPrec /\ [][Next]_vars
SpecGroup == InitGroup /\ [][Next]_vars
SpecNested == InitNested /\ [][Next]_vars
SpecDir == InitDir /\ [][Next]_vars
SpecHttp == InitHttp /\ [][Next]_vars

-----------------------------------------------------------------------------
(* What the claims speak of.                                               *)

\* parse_query was called directly and returned a document
DocReturned == pc = "done" /\ client = "lib" /\ ~IsExc(outcome)

RECURSIVE Flatten(_)
Flatten(seqs) == IF seqs = <<>> THEN <<>> ELSE Head(seqs) \o Flatten(Tail(seqs))

\* the field names of a document: match keys, range keys, exists fields, through the
\* clauses of bools and, when deep, through nested objects
RECURSIVE FieldsOf(_, _)
FieldsOf(doc, deep) ==
    CASE doc.t \in {"match", "range"} -> <<doc.field>>
      [] doc.t = "exists" -> IF IsStr(doc.field) THEN <<doc.field.v>> ELSE <<>>
      [] doc.t = "bool" ->
            Flatten([i \in 1..Len(doc.queries) |-> FieldsOf(doc.queries[i], deep)])
      [] doc.t = "nested" -> IF deep THEN FieldsOf(doc.query, deep) ELSE <<>>
      [] OTHER -> <<>>

\* the nested objects of a document, at every depth
RECURSIVE NestedObjects(_)
NestedObjects(doc) ==
    CASE doc.t = "nested" -> <<doc>> \o NestedObjects(doc.query)
      [] doc.t = "bool" ->
            Flatten([i \in 1..Len(doc.queries) |-> NestedObjects(doc.queries[i])])
      [] OTHER -> <<>>

\* the bool objects of a document, at every depth
RECURSIVE BoolObjects(_)
BoolObjects(doc) ==
    CASE doc.t = "bool" ->
            <<doc>> \o Flatten([i \in 1..Len(doc.queries) |-> BoolObjects(doc.queries[i])])
      [] doc.t = "nested" -> BoolObjects(doc.query)
      [] OTHER -> <<>>

\* the name begins with the path followed by '.'
BeginsWith(name, path) ==
    /\ Len(name) > Len(path)
    /\ \A i \in 1..Len(path) : name[i] = path[i]

AllFieldsBegin(doc, deep) ==
    LET nested == NestedObjects(doc)
    IN  \A i \in 1..Len(nested) :
            LET fields == FieldsOf(nested[i].query, deep)
            IN  \A j \in 1..Len(fields) : BeginsWith(fields[j], nested[i].path)

\* C1 as stated: in every document produced, every field name anywhere inside a
\* nested object's query, further nested objects included, starts with that object's
\* path followed by '.'.
OrigC1 == DocReturned => AllFieldsBegin(outcome, TRUE)

\* C1 (amended): in every document produced, every field name inside a nested
\* object's query that is not inside a further nested object starts with that
\* object's path followed by '.'; a further nested object is left as it is, its
\* fields carrying its own path.
AmendedC1 == DocReturned => AllFieldsBegin(outcome, FALSE)

\* a nested object over a bool that holds a rewritten match beside a further nested
\* object
WitnessC1 ==
    /\ DocReturned
    /\ given.pool = "nested"
    /\ given.A = Toks(<<"bb", ":", "v">>)
    /\ outcome.t = "nested"
    /\ outcome.query.t = "bool"
    /\ outcome.query.queries[1].t = "match"
    /\ outcome.query.queries[1].field = outcome.path \o W("bb")
    /\ NestedObjects(outcome.query) # <<>>

\* C6: every bool object with a "should" clause, at any depth and also inside a nested
\* object whose fields were prefixed, carries minimum_should_match 1; the bool objects
\* of AND, ~ and NOT ("must", "must_not") carry none.
TheoremC6 ==
    DocReturned =>
        LET bools == BoolObjects(outcome)
        IN  \A i \in 1..Len(bools) :
                /\ bools[i].clause = "should" => bools[i].minimum_should_match = <<1>>
                /\ bools[i].clause \in {"must", "must_not"} =>
                        bools[i].minimum_should_match = <<>>

\* a nested object whose prefixed query is an OR of a must and a must_not
WitnessC6 ==
    /\ DocReturned
    /\ given.pool = "nested"
    /\ outcome.t = "nested"
    /\ outcome.query.t = "bool"
    /\ outcome.query.clause = "should"
    /\ outcome.query.minimum_should_match = <<1>>
    /\ outcome.query.queries[1].t = "nested"
    /\ outcome.query.queries[1].query.t = "bool"
    /\ outcome.query.queries[2].t = "bool"
    /\ outcome.query.queries[2].clause = "must_not"
    /\ FieldsOf(outcome.query.queries[2], FALSE) = <<outcome.path \o W("bb")>>

\* C2 as stated: a bare keyword sequence of n >= 1 lexemes, none of them AND, OR or
\* NOT, lowers to exactly one query_string clause whose query is the lexemes joined
\* by single blanks, in order.
OrigC2 ==
    LET toks == input.text.tokens
    IN  (/\ pc = "done"
         /\ client = "lib"
         /\ input.text.directives = <<>>
         /\ toks # <<>>
         /\ \A i \in 1..Len(toks) : MatchesKeyword(toks[i]))
        => (~IsExc(outcome) /\ outcome.t = "query_string" /\ outcome.query = toks)

\* C3 as stated: parse_query returns a document or fails with ValueError; no other
\* kind of failure escapes it.
OrigC3 ==
    (pc = "done" /\ client = "lib" /\ IsExc(outcome)) => outcome.kind = "ValueError"

\* C8 as stated: parse_query on the empty input returns the empty document {} and
\* does not raise.
OrigC8 ==
    (pc = "done" /\ client = "lib" /\ input.text = EmptyText)
        => outcome = [t |-> "empty"]

\* the document the claim gives for "x op y": should with minimum_should_match 1 for
\* OR, must for AND and for ~
ClaimedBool(op, x, y) ==
    [t |-> "bool",
     clause |-> IF op = "OR" THEN "should" ELSE "must",
     queries |-> <<x, y>>,
     minimum_should_match |-> IF op = "OR" THEN <<1>> ELSE <<>>]

ClaimedNot(x) ==
    [t |-> "bool", clause |-> "must_not", queries |-> <<x>>, minimum_should_match |-> <<>>]

\* OR < AND < ~
Binding(op) == CASE op = "OR" -> 1 [] op = "AND" -> 2 [] op = "~" -> 3

\* the document of an operand on its own, negated when the expression negates it
OperandDoc(flag, operand) ==
    LET d == parse_text(Text(<<>>, operand))
    IN  IF flag THEN ClaimedNot(d) ELSE d

\* what the claim says "[NOT] A op1 [NOT] B op2 [NOT] C", written without
\* parentheses, lowers to: NOT binds its operand first, then the tighter operator,
\* and of two equally tight operators the left one
ClaimedDoc(g) ==
    LET a == OperandDoc(g.shape.na, g.A)
        b == OperandDoc(g.shape.nb, g.B)
        c == OperandDoc(g.shape.nc, g.C)
        o1 == g.shape.op1
        o2 == g.shape.op2
    IN  CASE g.shape.arity = 1 -> a
          [] g.shape.arity = 2 -> ClaimedBool(o1, a, b)
          [] g.shape.arity = 3 /\ Binding(o2) > Binding(o1) ->
                ClaimedBool(o1, a, ClaimedBool(o2, b, c))
          [] OTHER -> ClaimedBool(o2, ClaimedBool(o1, a, b), c)

\* C4: precedence is OR < AND < ~ < NOT < primary and the binary operators are
\* left-associative: for all operands A, B, C and operators op1, op2, the text
\* "[NOT] A op1 [NOT] B op2 [NOT] C" without parentheses lowers to
\* op1[A, op2[B, C]] when op2 binds tighter than op1 and to op2[op1[A, B], C]
\* otherwise, with NOT applied to its operand alone; so "A OR B AND C" is
\* should[A, must[B, C]] with minimum_should_match 1, "A AND B ~ C" is
\* must[A, must[B, C]], "NOT A AND B" is must[must_not[A], B], and "A op B op C"
\* lowers as "( A op B ) op C" does.
TheoremC4 ==
    (pc = "done" /\ client = "lib" /\ given.pool = "prec")
        => /\ given.shape.paren = "none" => outcome = ClaimedDoc(given)
           /\ (given.shape.paren = "none" /\ given.shape.arity = 3
                    /\ given.shape.op1 = given.shape.op2)
                => outcome = parse_text(Text(<<>>,
                       Body([given.shape EXCEPT !.paren = "left"],
                            given.A, given.B, given.C)))

\* "NOT A OR B AND C" has been lowered to a should of a must_not and a must
WitnessC4 ==
    /\ pc = "done"
    /\ client = "lib"
    /\ given.pool = "prec"
    /\ given.shape = [arity |-> 3, na |-> TRUE, nb |-> FALSE, nc |-> FALSE,
                      op1 |-> "OR", op2 |-> "AND", paren |-> "none"]
    /\ outcome.t = "bool"
    /\ outcome.clause = "should"
    /\ outcome.queries[1].clause = "must_not"
    /\ outcome.queries[2].clause = "must"

\* G with every bare-keyword leaf v replaced by the match field:v
RECURSIVE Distributed(_, _)
Distributed(field, G) ==
    IF G = <<>> THEN <<>>
    ELSE (IF MatchesKeyword(Head(G)) THEN <<field, W(":"), Head(G)>> ELSE <<Head(G)>>)
         \o Distributed(field, Tail(G))

\* C5: for every field f and every group expression G built from single bare-keyword
\* leaves with NOT, AND, OR, ~ and parentheses, f:(G) lowers to a document, the same
\* one as G with every leaf v replaced by the match f:v.
TheoremC5 ==
    (pc = "done" /\ client = "lib" /\ given.pool = "group")
        => /\ ~IsExc(outcome)
           /\ outcome = parse_text(Text(<<>>,
                  Distributed(given.field,
                              Body(given.shape, given.A, given.B, given.C))))

\* ff:( NOT v OR ( w AND NOT v ) ) has been lowered to a should over matches of ff
WitnessC5 ==
    /\ pc = "done"
    /\ client = "lib"
    /\ given.pool = "group"
    /\ given.field = W("ff")
    /\ given.shape = [arity |-> 3, na |-> TRUE, nb |-> FALSE, nc |-> TRUE,
                      op1 |-> "OR", op2 |-> "AND", paren |-> "right"]
    /\ outcome.t = "bool"
    /\ outcome.clause = "should"
    /\ FieldsOf(outcome, FALSE) = <<W("ff"), W("ff"), W("ff")>>

\* the query_string clauses of a document, at every depth
RECURSIVE QueryStrings(_)
QueryStrings(doc) ==
    CASE doc.t = "query_string" -> <<doc>>
      [] doc.t = "bool" ->
            Flatten([i \in 1..Len(doc.queries) |-> QueryStrings(doc.queries[i])])
      [] doc.t = "nested" -> QueryStrings(doc.query)
      [] OTHER -> <<>>

\* a document with the options of its query_string clauses taken away
RECURSIVE WithoutOptions(_)
WithoutOptions(doc) ==
    CASE doc.t = "query_string" -> [doc EXCEPT !.options = EmptyMap]
      [] doc.t = "bool" ->
            [doc EXCEPT !.queries = [i \in 1..Len(doc.queries) |->
                                        WithoutOptions(doc.queries[i])]]
      [] doc.t = "nested" -> [doc EXCEPT !.query = WithoutOptions(doc.query)]
      [] OTHER -> doc

Given(ds, key) == \E i \in 1..Len(ds) : ds[i].key = key

\* the value of the last directive of the list with this key
LastGiven(ds, key) ==
    LET i == CHOOSE i \in 1..Len(ds) :
                ds[i].key = key /\ \A j \in (i + 1)..Len(ds) : ds[j].key # key
    IN  ds[i].value

\* what the claim says the body of a query_string clause holds beside "query"
ClaimedOptions(ds, options) ==
    /\ DOMAIN options \subseteq QUERY_STRING_OPTION_KEYS
    /\ \A key \in QUERY_STRING_OPTION_KEYS \ {"fields"} :
            /\ key \in DOMAIN options <=> Given(ds, key)
            /\ Given(ds, key) =>
                    options[key] = [kind |-> "str", parts |-> LastGiven(ds, key)]
    /\ LET parts == IF Given(ds, "fields")
                    THEN SelectSeq(LastGiven(ds, "fields"), LAMBDA part : part # "")
                    ELSE <<>>
       IN  /\ "fields" \in DOMAIN options <=> parts # <<>>
           /\ parts # <<>> => options["fields"] = [kind |-> "list", parts |-> parts]

\* C9: the body of every query_string clause is its query text plus exactly one entry
\* per recognised directive key given (copied verbatim; fields as the list of its
\* non-empty comma-separated parts, left out when that list is empty), the last value
\* of a repeated key winning and unrecognised keys adding nothing; and the directives
\* change nothing else: without them the same text gives the same document, or the
\* same failure, but for these entries.
TheoremC9 ==
    (pc = "done" /\ client = "lib" /\ given.pool = "dir")
        => LET ds == input.text.directives
               plain == parse_text(Text(<<>>, input.text.tokens))
           IN  IF IsExc(outcome) THEN outcome = plain
               ELSE /\ WithoutOptions(outcome) = plain
                    /\ LET qs == QueryStrings(outcome)
                       IN  \A i \in 1..Len(qs) : ClaimedOptions(ds, qs[i].options)

\* a repeated default_field: the last value is in both query_string clauses
WitnessC9 ==
    /\ pc = "done"
    /\ client = "lib"
    /\ given.pool = "dir"
    /\ input.text.directives =
            <<[key |-> "default_field", value |-> <<"title">>],
              [key |-> "default_field", value |-> <<"title", "body">>]>>
    /\ outcome.t = "bool"
    /\ Len(QueryStrings(outcome)) = 2
    /\ QueryStrings(outcome)[1].options =
            [default_field |-> [kind |-> "str", parts |-> <<"title", "body">>]]

\* what the claim says the per-request storage holds after the middleware
ClaimedParsedQuery ==
    LET query_string == ArgsGet(RequestArgs(input), input.query_param)
    IN  IF TruthyText(query_string) /\ ~IsExc(parse_text(query_string))
        THEN parse_text(query_string)
        ELSE NoneV

OrigC10 ==
    (client = "fastapi" /\ pc = "done" /\ ~input.takesRequest)
        => outcome = Exc("RuntimeError")

\* C12: prefixing is idempotent: prefixing with P a document that was prefixed with
\* P changes nothing; and the first prefixing leaves a field name that begins with
\* "P." as it is and puts "P." before every other one, so no name becomes "P.P...."
\* by it.
TheoremC12 ==
    (pc = "done" /\ client = "prefix")
        => \A path \in PrefixPaths :
            LET Q == parse_text(input.text)
                before == FieldsOf(Q, FALSE)
                after == FieldsOf(outcome, FALSE)
            IN  outcome = prefix_nested_fields(Q, path)
                    => /\ ~IsExc(outcome)
                       /\ prefix_nested_fields(outcome, path) = outcome
                       /\ Len(after) = Len(before)
                       /\ \A j \in 1..Len(before) :
                            after[j] = IF BeginsWith(before[j], path)
                                       THEN before[j]
                                       ELSE path \o before[j]

\* "bb:v AND aa.cc:v" prefixed with aa: bb has become aa.bb, aa.cc is as it was
WitnessC12 ==
    /\ pc = "done"
    /\ client = "prefix"
    /\ given.pool = "nested"
    /\ given.wrap = "plain"
    /\ FieldsOf(parse_text(input.text), FALSE) = <<W("bb"), <<"aa", "cc">>>>
    /\ outcome.t = "bool"
    /\ FieldsOf(outcome, FALSE) = <<<<"aa", "bb">>, <<"aa", "cc">>>>

\* C13 as stated: the parsed_query keyword argument a handler decorated with
\* use_flask_query_parser receives is the value the Flask middleware stored for the
\* request, no other parameter of the request takes its place, and the raw text of
\* the configured query parameter is not among the keyword arguments.
OrigC13 ==
    (client = "flask" /\ pc = "done" /\ outcome.t = "handler")
        => LET kwargs == outcome.kwargs
           IN  /\ "parsed_query" \in DOMAIN kwargs <=> "parsed_query" \in DOMAIN store
               /\ "parsed_query" \in DOMAIN kwargs
                    => kwargs["parsed_query"] = store["parsed_query"]
               /\ input.query_param \notin DOMAIN kwargs

\* C11 as stated: in a sequence of requests through one application, the parsed_query
\* a handler receives is the result of parsing its own request's query parameter, and
\* a request finds no parsed_query of an earlier request in its storage.
OrigC11 ==
    client \in {"flask", "fastapi"}
        => /\ pc = "ready" => "parsed_query" \notin DOMAIN store
           /\ (pc = "done" /\ outcome.t = "handler"
                /\ "parsed_query" \in DOMAIN outcome.kwargs)
                => outcome.kwargs["parsed_query"] = ClaimedParsedQuery

\* the part of C11 that is about the storage alone: whatever parsed_query the
\* per-request storage holds, at any request of a sequence, the middleware stored it
\* for this request
RequestIsolation ==
    (client \in {"flask", "fastapi"} /\ "parsed_query" \in DOMAIN store)
        => /\ pc # "ready"
           /\ store["parsed_query"] = ClaimedParsedQuery

\* a second or later request, without a query parameter, at its handler
LaterRequestServed ==
    /\ client = "flask"
    /\ pc = "done"
    /\ given.pool = "http"
    /\ ~input.present
    /\ outcome.t = "handler"
    /\ "parsed_query" \notin DOMAIN outcome.kwargs

=============================================================================
